---- MODULE Spec2Model ----
(***************************************************************************)
(* The request pipelines of alya-go-fn-boilerplate (src/main.go).  The     *)
(* file holds three programs (package main, three times):                  *)
(*   "kampusapp"    lines    1..520   CreatePostHandler, GetPostsHandler    *)
(*   "post"         lines  535..963   CreatePostHandler, GetPostHandler     *)
(*   "transaction"  lines  978..1599  CreateTransactionHandler,             *)
(*                                    GetTransactionsHandler,               *)
(*                                    GetTxByIdHandler                      *)
(* A behaviour is a run of one of them (svc).  Go strings are sequences of *)
(* byte codes, compared and parsed as Go compares and parses them.         *)
(***************************************************************************)
EXTENDS Integers, Sequences, FiniteSets, TLC

VARIABLES svc, db, pc, req, resp, calls, now, loc, prev

vars == <<svc, db, pc, req, resp, calls, now, loc, prev>>

(* ------------------------------ bounds -------------------------------- *)

\* longest raw query / path parameter that is enumerated in full
MaxLen == 2

\* most rows the table holds
MaxRows == 3

(* ------------------------------ strings ------------------------------- *)

\* the bytes the raw parameters are made of: '-', '0', '1', '2'
Chars == {45, 48, 49, 50}

RECURSIVE StringsOfLen(_)
StringsOfLen(n) ==
    IF n = 0 THEN {<<>>}
    ELSE {<<c>> \o s : c \in Chars, s \in StringsOfLen(n - 1)}

\* "1", "10", "100": the literals of the pagination checks
S1 == <<49>>
S10 == <<49, 48>>
S100 == <<49, 48, 48>>

\* the raw parameter values a request may carry: every string over Chars up
\* to MaxLen, and the upper limit "100"
Strings == UNION {StringsOfLen(n) : n \in 0..MaxLen} \cup {S100}

\* Go's < on strings: bytewise lexicographic, a proper prefix is smaller
RECURSIVE StrLess(_, _)
StrLess(a, b) ==
    IF a = <<>> THEN b # <<>>
    ELSE IF b = <<>> THEN FALSE
    ELSE IF Head(a) # Head(b) THEN Head(a) < Head(b)
    ELSE StrLess(Tail(a), Tail(b))

IsDigit(c) == c >= 48 /\ c <= 57

RECURSIVE DigitsValue(_, _)
DigitsValue(s, acc) ==
    IF s = <<>> THEN acc
    ELSE DigitsValue(Tail(s), acc * 10 + (Head(s) - 48))

\* strconv.Atoi: an optional sign and at least one digit, nothing else;
\* on a syntax error the value is 0
Atoi(s) ==
    LET signed == s # <<>> /\ Head(s) \in {43, 45}
        digits == IF signed THEN Tail(s) ELSE s
        ok     == digits # <<>> /\ \A i \in 1..Len(digits) : IsDigit(digits[i])
        n      == IF ok THEN DigitsValue(digits, 0) ELSE 0
    IN  [n |-> IF ok /\ signed /\ Head(s) = 45 THEN 0 - n ELSE n, err |-> ~ok]

(* ----------------------------- pagination ----------------------------- *)

\* a query parameter: <<>> when the key is absent, <<v>> when it has value v
QueryValues(S) == {<<>>} \cup {<<s>> : s \in S}

\* gin's ctx.DefaultQuery
DefaultQuery(q, key, def) == IF q[key] = <<>> THEN def ELSE q[key][1]

\* the bounds check of the list handlers, on the raw strings
ClampQ(raw, def) ==
    IF raw = <<>> \/ StrLess(raw, S1) \/ StrLess(S100, raw) THEN def ELSE raw

\* the page the handler computes the offset from: only the transaction
\* service clamps it again after parsing
PageOf(s, pageQ) ==
    LET page == Atoi(pageQ).n
    IN  IF s = "transaction" /\ page < 1 THEN 1 ELSE page

\* the offset computed from page instead of page - 1
Pagination_OffsetFromPage(s, q) ==
    LET limitQ == ClampQ(DefaultQuery(q, "limit", S10), S10)
        pageQ  == ClampQ(DefaultQuery(q, "page", S1), S1)
        limit  == Atoi(limitQ).n
        page   == PageOf(s, pageQ)
    IN  [limit |-> limit, page |-> page, offset |-> page * limit]

\* limit, page and offset of a list request
Pagination(s, q) ==
    LET limitQ == ClampQ(DefaultQuery(q, "limit", S10), S10)
        pageQ  == ClampQ(DefaultQuery(q, "page", S1), S1)
        limit  == Atoi(limitQ).n
        page   == PageOf(s, pageQ)
    IN  [limit |-> limit, page |-> page, offset |-> (page - 1) * limit]

(* -------------------------------- store ------------------------------- *)

Max(a, b) == IF a > b THEN a ELSE b
Min(a, b) == IF a < b THEN a ELSE b

\* db.Limit(limit).Offset(offset).Find(&rows): rows in insertion order;
\* a LIMIT or OFFSET clause is written only for a positive value
Find(rows, limit, offset) ==
    LET from == Max(offset, 0) + 1
        last == IF limit > 0 THEN Min(Len(rows), from + limit - 1) ELSE Len(rows)
    IN  SubSeq(rows, from, last)

\* a Create that writes over the newest row when the store has one
Create_OverNewest(rows, row, saved) ==
    LET n   == IF rows = <<>> THEN 1 ELSE Len(rows)
        out == IF saved THEN [row EXCEPT !.ID = n] ELSE row
    IN  [row |-> out,
         rows |-> IF ~saved THEN rows
                  ELSE IF rows = <<>> THEN <<out>> ELSE [rows EXCEPT ![n] = out]]

\* a Create that counts identifiers per caller: every stored row gets 1
Create_SameId(rows, row, saved) ==
    LET out == IF saved THEN [row EXCEPT !.ID = 1] ELSE row
    IN  [row |-> out, rows |-> IF saved THEN Append(rows, out) ELSE rows]

\* db.Create(&row): on success the store assigns the next identifier, on
\* failure the row keeps the identifier it had
Create(rows, row, saved) ==
    LET out == IF saved THEN [row EXCEPT !.ID = Len(rows) + 1] ELSE row
    IN  [row |-> out, rows |-> IF saved THEN Append(rows, out) ELSE rows]

\* a First that ignores the key and takes the oldest row
First_OldestRow(rows, zero, id) ==
    IF rows # <<>> THEN rows[1] ELSE zero

\* db.First(&tx, txId): the row whose primary key is txId, else tx is untouched
First(rows, zero, id) ==
    IF \E i \in 1..Len(rows) : rows[i].ID = id
    THEN rows[CHOOSE i \in 1..Len(rows) : rows[i].ID = id]
    ELSE zero

(* --------------------------- request bodies --------------------------- *)

\* max=255 of the string fields, max=10 of status, the coordinate ranges
StrMax == 255
StatusMax == 10
LatMax == 90
LonMax == 180

\* a string of n bytes 'a'
Rep(n) == [i \in 1..n |-> 97]

\* a JSON member: <<>> when absent (or null), <<v>> when present
Opt(member, zero) == IF member = <<>> THEN zero ELSE member[1]

\* A request body is a syntax error ("syntax"), well-formed JSON whose member
\* has the wrong type for the DTO ("type"), or an object the DTO decodes.
PostBodies ==
    {[kind |-> "syntax"], [kind |-> "type"]}
    \cup {[kind |-> "object", body |-> b] :
            b \in {<<>>, <<Rep(0)>>, <<Rep(1)>>, <<Rep(StrMax)>>, <<Rep(StrMax + 1)>>}}

TxFields ==
    [owner_id |-> <<1>>, pet_id |-> <<2>>, status |-> <<1>>, message |-> <<Rep(1)>>,
     latitude |-> <<45>>, longitude |-> <<0 - 120>>, upload |-> <<Rep(1)>>]

TxBodies ==
    {[kind |-> "syntax"], [kind |-> "type"]}
    \cup {[kind |-> "object", fields |-> f] : f \in
            {TxFields,
             [TxFields EXCEPT !.owner_id = <<2>>, !.status = <<StatusMax>>,
                              !.message = <<Rep(StrMax)>>],
             [TxFields EXCEPT !.owner_id = <<>>],
             [TxFields EXCEPT !.pet_id = <<0>>],
             [TxFields EXCEPT !.status = <<StatusMax + 1>>],
             [TxFields EXCEPT !.message = <<Rep(StrMax + 1)>>],
             [TxFields EXCEPT !.latitude = <<LatMax + 1>>],
             [TxFields EXCEPT !.longitude = <<0 - (LonMax + 1)>>],
             [TxFields EXCEPT !.upload = <<Rep(0)>>]}}

ZeroPostDto == [Body |-> <<>>]

ZeroTxDto ==
    [OwnerID |-> 0, PetID |-> 0, Status |-> 0, Message |-> <<>>,
     Latitude |-> 0, Longitude |-> 0, Upload |-> <<>>]

\* BindJSON whose error is lost
BindPostJSON_ErrorLost(body) ==
    [err |-> FALSE,
     dto |-> IF body.kind = "object" THEN [Body |-> Opt(body.body, <<>>)] ELSE ZeroPostDto]

\* ctx.BindJSON(&createPostDto): an error unless the body decodes
BindPostJSON(body) ==
    IF body.kind = "object"
    THEN [err |-> FALSE, dto |-> [Body |-> Opt(body.body, <<>>)]]
    ELSE [err |-> TRUE, dto |-> ZeroPostDto]

\* ctx.BindJSON(&createTxDto)
BindTxJSON(body) ==
    IF body.kind = "object"
    THEN [err |-> FALSE,
          dto |-> [OwnerID   |-> Opt(body.fields.owner_id, 0),
                   PetID     |-> Opt(body.fields.pet_id, 0),
                   Status    |-> Opt(body.fields.status, 0),
                   Message   |-> Opt(body.fields.message, <<>>),
                   Latitude  |-> Opt(body.fields.latitude, 0),
                   Longitude |-> Opt(body.fields.longitude, 0),
                   Upload    |-> Opt(body.fields.upload, <<>>)]]
    ELSE [err |-> TRUE, dto |-> ZeroTxDto]

\* the validator tags: required (not the zero value), min, max
ReqStr(s, lo, hi) == s # <<>> /\ Len(s) >= lo /\ Len(s) <= hi
ReqMin(n, lo) == n # 0 /\ n >= lo
ReqRange(n, lo, hi) == n # 0 /\ n >= lo /\ n <= hi

\* the post DTO without its max tag
CreatePostDtoValid_NoMax(dto) == dto.Body # <<>>

\* validateDto.Struct(createPostDto): TRUE when the tags hold
CreatePostDtoValid(dto) == ReqStr(dto.Body, 1, StrMax)

\* validateDto.Struct(createTxDto)
CreateTransactionDtoValid(dto) ==
    /\ ReqMin(dto.OwnerID, 1)
    /\ ReqMin(dto.PetID, 1)
    /\ ReqRange(dto.Status, 1, StatusMax)
    /\ ReqStr(dto.Message, 1, StrMax)
    /\ ReqRange(dto.Latitude, 0 - LatMax, LatMax)
    /\ ReqRange(dto.Longitude, 0 - LonMax, LonMax)
    /\ ReqStr(dto.Upload, 1, StrMax)

(* ------------------------------ responses ----------------------------- *)

NoResp == [code |-> 0, body |-> [none |-> TRUE]]

\* ctx.JSON(code, gin.H{"status": false, "type": type, "message": ...})
ErrJSON(code, type) ==
    [code |-> code, body |-> [status |-> FALSE, type |-> type, message |-> "error"]]

CreatePostDtoValidator(body) ==
    LET b == BindPostJSON(body)
    IN  IF b.err
        THEN [dto |-> b.dto, err |-> TRUE, resp |-> ErrJSON(400, "create-post/request-body")]
        ELSE IF ~CreatePostDtoValid(b.dto)
        THEN [dto |-> b.dto, err |-> TRUE, resp |-> ErrJSON(400, "create-post/validation")]
        ELSE [dto |-> b.dto, err |-> FALSE, resp |-> NoResp]

CreateTransactionDtoValidator(body) ==
    LET b == BindTxJSON(body)
    IN  IF b.err
        THEN [dto |-> b.dto, err |-> TRUE, resp |-> ErrJSON(400, "create-tx/request-body")]
        ELSE IF ~CreateTransactionDtoValid(b.dto)
        THEN [dto |-> b.dto, err |-> TRUE, resp |-> ErrJSON(400, "create-tx/validation")]
        ELSE [dto |-> b.dto, err |-> FALSE, resp |-> NoResp]

(* ------------------------------ the bus ------------------------------- *)

\* the timeout of an enrichment request, in seconds (time.Second)
RequestTimeout == 1

\* nc.Publish(topic, ...): its error is dropped, err records what it returned
Publish(topic, err) == [op |-> "nc.Publish", topic |-> topic, err |-> err]

\* nc.Request(topic, ..., time.Second), sent at time at
Request(topic, at) == [op |-> "nc.Request", topic |-> topic, at |-> at]

\* The data of a reply: a JSON object, the literal null, well-formed JSON
\* that is no object, or bytes that are not JSON.
ReplyData ==
    {[json |-> "object", members |-> m] : m \in {"a", "b"}}
    \cup {[json |-> "null"], [json |-> "array"], [json |-> "invalid"]}

\* how an nc.Request ends: a reply, or an error of the connection
NoMsg == [json |-> "none"]

NilMap == [isNil |-> TRUE, members |-> ""]

\* json.Unmarshal(data, &info) into a nil map[string]interface{}
Unmarshal(data) ==
    IF data.json = "object" THEN [err |-> FALSE, val |-> [isNil |-> FALSE, members |-> data.members]]
    ELSE IF data.json = "null" THEN [err |-> FALSE, val |-> NilMap]
    ELSE [err |-> TRUE, val |-> NilMap]

\* the "check errors" blocks of GetTxByIdHandler: the field of the response
InfoOf(msg, err) ==
    IF err THEN NilMap
    ELSE IF Unmarshal(msg).err THEN NilMap
    ELSE Unmarshal(msg).val

(* ------------------------------ handlers ------------------------------ *)

NoLoc == [none |-> TRUE]

\* no earlier request is remembered
NoPrev == [req |-> [op |-> "none"], resp |-> NoResp]

ZeroTx == [ID |-> 0] @@ ZeroTxDto

\* CreatePostHandler without the check of post.ID
CreatePost_NoIdCheck(rows, body, saved, pubErr) ==
    LET v == CreatePostDtoValidator(body)
        c == Create(rows, [ID |-> 0, Body |-> v.dto.Body], saved)
    IN  IF v.err
        THEN [resp |-> v.resp, calls |-> <<>>, rows |-> rows]
        ELSE [resp  |-> [code |-> 200, body |-> [post |-> c.row]],
              calls |-> <<[op |-> "db.Create", id |-> c.row.ID],
                          Publish("post.created", pubErr)>>,
              rows  |-> c.rows]

\* CreatePostHandler that reports a failed publish to the caller
CreatePost_PublishReported(rows, body, saved, pubErr) ==
    LET v == CreatePostDtoValidator(body)
        c == Create(rows, [ID |-> 0, Body |-> v.dto.Body], saved)
    IN  IF v.err
        THEN [resp |-> v.resp, calls |-> <<>>, rows |-> rows]
        ELSE IF c.row.ID = 0
        THEN [resp  |-> ErrJSON(422, "create-post/save"),
              calls |-> <<[op |-> "db.Create", id |-> c.row.ID]>>, rows |-> c.rows]
        ELSE [resp  |-> IF pubErr THEN ErrJSON(500, "create-post/publish")
                        ELSE [code |-> 200, body |-> [post |-> c.row]],
              calls |-> <<[op |-> "db.Create", id |-> c.row.ID], Publish("post.created", pubErr)>>,
              rows  |-> c.rows]

\* CreatePostHandler without the return after the 422
CreatePost_NoReturnAfter422(rows, body, saved, pubErr) ==
    LET v == CreatePostDtoValidator(body)
        c == Create(rows, [ID |-> 0, Body |-> v.dto.Body], saved)
    IN  IF v.err
        THEN [resp |-> v.resp, calls |-> <<>>, rows |-> rows]
        ELSE [resp  |-> IF c.row.ID = 0 THEN ErrJSON(422, "create-post/save")
                        ELSE [code |-> 200, body |-> [post |-> c.row]],
              calls |-> <<[op |-> "db.Create", id |-> c.row.ID], Publish("post.created", pubErr)>>,
              rows  |-> c.rows]

\* CreatePostHandler of kampusapp and of post (the same code): the response,
\* the calls made and the table afterwards
CreatePost(rows, body, saved, pubErr) ==
    LET v == CreatePostDtoValidator(body)
        c == Create(rows, [ID |-> 0, Body |-> v.dto.Body], saved)
    IN  IF v.err
        THEN [resp |-> v.resp, calls |-> <<>>, rows |-> rows]
        ELSE IF c.row.ID = 0
        THEN [resp  |-> ErrJSON(422, "create-post/save"),
              calls |-> <<[op |-> "db.Create", id |-> c.row.ID]>>, rows |-> c.rows]
        ELSE [resp  |-> [code |-> 200, body |-> [post |-> c.row]],
              calls |-> <<[op |-> "db.Create", id |-> c.row.ID], Publish("post.created", pubErr)>>,
              rows  |-> c.rows]

CreateTransaction(rows, body, saved, pubErr) ==
    LET v == CreateTransactionDtoValidator(body)
        c == Create(rows, [ID |-> 0] @@ v.dto, saved)
    IN  IF v.err
        THEN [resp |-> v.resp, calls |-> <<>>, rows |-> rows]
        ELSE IF c.row.ID = 0
        THEN [resp  |-> ErrJSON(422, "create-tx/save"),
              calls |-> <<[op |-> "db.Create", id |-> c.row.ID]>>, rows |-> c.rows]
        ELSE [resp  |-> [code |-> 200,
                         body |-> [status |-> TRUE, type |-> "create-tx/success",
                                   message |-> "Transaction Created Successfully",
                                   transaction |-> c.row]],
              calls |-> <<[op |-> "db.Create", id |-> c.row.ID], Publish("tx.created", pubErr)>>,
              rows  |-> c.rows]

Init ==
    /\ svc \in {"kampusapp", "post", "transaction"}
    /\ db = <<>>
    /\ pc = "idle"
    /\ req = [op |-> "none"]
    /\ resp = NoResp
    /\ calls = <<>>
    /\ now = 0
    /\ loc = NoLoc
    /\ prev = NoPrev

\* POST /v1/post/ (and the other groups of kampusapp)
CreatePostHandlerOn(Bodies) ==
    /\ svc \in {"kampusapp", "post"}
    /\ pc = "idle"
    /\ \E body \in Bodies, saved \in BOOLEAN, pubErr \in BOOLEAN :
        LET r == CreatePost(db, body, saved, pubErr)
        IN  /\ saved => Len(db) < MaxRows
            /\ req' = [op |-> "create", body |-> body]
            /\ resp' = r.resp
            /\ calls' = r.calls
            /\ db' = r.rows
    /\ pc' = "done"
    /\ now' = 0
    /\ loc' = NoLoc
    /\ UNCHANGED <<svc, prev>>

CreatePostHandler == CreatePostHandlerOn(PostBodies)

\* POST /v1/transaction/
CreateTransactionHandlerOn(Bodies) ==
    /\ svc = "transaction"
    /\ pc = "idle"
    /\ \E body \in Bodies, saved \in BOOLEAN, pubErr \in BOOLEAN :
        LET r == CreateTransaction(db, body, saved, pubErr)
        IN  /\ saved => Len(db) < MaxRows
            /\ req' = [op |-> "create", body |-> body]
            /\ resp' = r.resp
            /\ calls' = r.calls
            /\ db' = r.rows
    /\ pc' = "done"
    /\ now' = 0
    /\ loc' = NoLoc
    /\ UNCHANGED <<svc, prev>>

CreateTransactionHandler == CreateTransactionHandlerOn(TxBodies)

\* a list handler that answers 404 when it found nothing
ListResponse_NotFoundOnEmpty(key, rows) ==
    IF rows = <<>> THEN ErrJSON(404, "get/not-found")
    ELSE [code |-> 200,
          body |-> IF key = "posts" THEN [posts |-> rows] ELSE [transactions |-> rows]]

\* ctx.JSON(http.StatusOK, gin.H{"posts": posts}) of the list handlers
ListResponse(key, rows) ==
    [code |-> 200,
     body |-> IF key = "posts" THEN [posts |-> rows] ELSE [transactions |-> rows]]

\* the list handlers: GetPostsHandler, GetPostHandler, GetTransactionsHandler
ListOn(Q, key, topic) ==
    /\ pc = "idle"
    /\ \E l \in Q, p \in Q, pubErr \in BOOLEAN :
        LET q  == [limit |-> l, page |-> p]
            pg == Pagination(svc, q)
            rows == Find(db, pg.limit, pg.offset)
        IN  /\ req' = [op |-> "list", query |-> q]
            /\ loc' = pg
            /\ calls' = <<[op |-> "db.Find", limit |-> pg.limit, offset |-> pg.offset],
                          Publish(topic, pubErr)>>
            /\ resp' = ListResponse(key, rows)
    /\ pc' = "done"
    /\ now' = 0
    /\ UNCHANGED <<svc, db, prev>>

List(key, topic) == ListOn(QueryValues(Strings), key, topic)

\* GET /v1/post/ of kampusapp
GetPostsHandler == svc = "kampusapp" /\ List("posts", "post.select")

\* GET /v1/post/ of post
GetPostHandler == svc = "post" /\ List("posts", "post.select")

\* GET /v1/transaction/
GetTransactionsHandler == svc = "transaction" /\ List("transactions", "tx.select")

\* GetTxByIdHandler that goes on with the 0 of a failed strconv.Atoi
GetTxById_AtoiErrorIgnored(rows, id, pubErr) ==
    LET a  == Atoi(id)
        tx == First(rows, ZeroTx, a.n)
    IN  IF tx.ID = 0
        THEN [resp |-> ErrJSON(404, "get-tx/not-found"),
              calls |-> <<[op |-> "db.First", id |-> a.n]>>, tx |-> tx, found |-> FALSE]
        ELSE [resp |-> NoResp,
              calls |-> <<[op |-> "db.First", id |-> a.n], Publish("tx.select", pubErr),
                          Request("user.info", 0)>>,
              tx |-> tx, found |-> TRUE]

\* GetTxByIdHandler without the check of tx.ID
GetTxById_NoIdCheck(rows, id, pubErr) ==
    LET a  == Atoi(id)
        tx == First(rows, ZeroTx, a.n)
    IN  IF a.err
        THEN [resp |-> ErrJSON(400, "get-tx/validation"), calls |-> <<>>, tx |-> ZeroTx,
              found |-> FALSE]
        ELSE [resp |-> NoResp,
              calls |-> <<[op |-> "db.First", id |-> a.n], Publish("tx.select", pubErr),
                          Request("user.info", 0)>>,
              tx |-> tx, found |-> TRUE]

\* GetTxByIdHandler that answers 500 when the publish of tx.select failed
GetTxById_PublishReported(rows, id, pubErr) ==
    LET a  == Atoi(id)
        tx == First(rows, ZeroTx, a.n)
    IN  IF a.err
        THEN [resp |-> ErrJSON(400, "get-tx/validation"), calls |-> <<>>, tx |-> ZeroTx,
              found |-> FALSE]
        ELSE IF tx.ID = 0
        THEN [resp |-> ErrJSON(404, "get-tx/not-found"),
              calls |-> <<[op |-> "db.First", id |-> a.n]>>, tx |-> tx, found |-> FALSE]
        ELSE IF pubErr
        THEN [resp |-> ErrJSON(500, "get-tx/publish"),
              calls |-> <<[op |-> "db.First", id |-> a.n], Publish("tx.select", pubErr)>>,
              tx |-> tx, found |-> FALSE]
        ELSE [resp |-> NoResp,
              calls |-> <<[op |-> "db.First", id |-> a.n], Publish("tx.select", pubErr),
                          Request("user.info", 0)>>,
              tx |-> tx, found |-> TRUE]

\* GetTxByIdHandler that publishes tx.select before it looks the row up
GetTxById_PublishFirst(rows, id, pubErr) ==
    LET a  == Atoi(id)
        tx == First(rows, ZeroTx, a.n)
    IN  IF a.err
        THEN [resp |-> ErrJSON(400, "get-tx/validation"), calls |-> <<>>, tx |-> ZeroTx,
              found |-> FALSE]
        ELSE IF tx.ID = 0
        THEN [resp |-> ErrJSON(404, "get-tx/not-found"),
              calls |-> <<Publish("tx.select", pubErr), [op |-> "db.First", id |-> a.n]>>,
              tx |-> tx, found |-> FALSE]
        ELSE [resp |-> NoResp,
              calls |-> <<Publish("tx.select", pubErr), [op |-> "db.First", id |-> a.n],
                          Request("user.info", 0)>>,
              tx |-> tx, found |-> TRUE]

\* GetTxByIdHandler up to the first enrichment request
GetTxById(rows, id, pubErr) ==
    LET a  == Atoi(id)
        tx == First(rows, ZeroTx, a.n)
    IN  IF a.err
        THEN [resp |-> ErrJSON(400, "get-tx/validation"), calls |-> <<>>, tx |-> ZeroTx,
              found |-> FALSE]
        ELSE IF tx.ID = 0
        THEN [resp |-> ErrJSON(404, "get-tx/not-found"),
              calls |-> <<[op |-> "db.First", id |-> a.n]>>, tx |-> tx, found |-> FALSE]
        ELSE [resp |-> NoResp,
              calls |-> <<[op |-> "db.First", id |-> a.n], Publish("tx.select", pubErr),
                          Request("user.info", 0)>>,
              tx |-> tx, found |-> TRUE]

\* a response in which a failed user.info also blanks the pet field
GetTxResponse_Coupled(l) ==
    [code |-> 200,
     body |-> [transaction |-> l.tx,
               user |-> InfoOf(l.msgUser, l.errU),
               pet  |-> InfoOf(l.msgPet, l.errU \/ l.errP)]]

\* the response of GetTxByIdHandler, from the outcomes of the two requests
GetTxResponse(l) ==
    [code |-> 200,
     body |-> [transaction |-> l.tx,
               user |-> InfoOf(l.msgUser, l.errU),
               pet  |-> InfoOf(l.msgPet, l.errP)]]

\* GET /v1/transaction/:id, to the point where it waits for user.info
GetTxByIdHandlerOn(Ids) ==
    /\ svc = "transaction"
    /\ pc = "idle"
    /\ \E id \in Ids, pubErr \in BOOLEAN :
        LET r == GetTxById(db, id, pubErr)
        IN  /\ req' = [op |-> "fetch", id |-> id]
            /\ resp' = r.resp
            /\ calls' = r.calls
            /\ pc' = IF r.found THEN "user.info" ELSE "done"
            /\ loc' = IF r.found
                      THEN [tx |-> r.tx, sentAt |-> 0, msgUser |-> NoMsg, errU |-> FALSE,
                            msgPet |-> NoMsg, errP |-> FALSE]
                      ELSE NoLoc
    /\ now' = 0
    /\ UNCHANGED <<svc, db, prev>>

GetTxByIdHandler == GetTxByIdHandlerOn(Strings \ {<<>>})

\* What a request says about who sends it: no Authorization header, one that
\* is not the configured account, or the account of APP_STAT_AUTH.
Credentials == {"none", "other", "configured"}

\* gin.BasicAuth(gin.Accounts{statUsername: statPassword}): TRUE when the
\* request passes, otherwise the middleware aborts with 401
BasicAuth(auth) == auth = "configured"

\* the routes that are registered behind gin.BasicAuth in each program
StatsBehindAuth(s) == s = "post"
HealthBehindAuth(s) == s \in {"kampusapp", "transaction"}

Unauthorized == [code |-> 401, body |-> [none |-> TRUE]]

\* GET .../_/app_kernel_stats
AppKernelStatsHandler ==
    /\ pc = "idle"
    /\ \E auth \in Credentials :
        /\ req' = [op |-> "stats", auth |-> auth]
        /\ resp' = IF StatsBehindAuth(svc) /\ ~BasicAuth(auth) THEN Unauthorized
                   ELSE [code |-> 200, body |-> [stats |-> "osstatus"]]
    /\ pc' = "done"
    /\ calls' = <<>>
    /\ now' = 0
    /\ loc' = NoLoc
    /\ UNCHANGED <<svc, db, prev>>

\* GET .../_/health
AppHealthCheckHandler ==
    /\ pc = "idle"
    /\ \E auth \in Credentials :
        /\ req' = [op |-> "health", auth |-> auth]
        /\ resp' = IF HealthBehindAuth(svc) /\ ~BasicAuth(auth) THEN Unauthorized
                   ELSE [code |-> 200,
                         body |-> [status |-> TRUE, uptime |-> "uptime", version |-> "1.0.0"]]
    /\ pc' = "done"
    /\ calls' = <<>>
    /\ now' = 0
    /\ loc' = NoLoc
    /\ UNCHANGED <<svc, db, prev>>

Waiting == pc \in {"user.info", "pet.info"}

\* a second passes while the handler is blocked in nc.Request
Tick ==
    /\ Waiting
    /\ now - loc.sentAt < RequestTimeout
    /\ now' = now + 1
    /\ UNCHANGED <<svc, db, pc, req, resp, calls, loc, prev>>

\* an nc.Request that never returns when no reply came in time
Outcomes_NoTimeout ==
    IF now - loc.sentAt < RequestTimeout
    THEN {[msg |-> d, err |-> FALSE] : d \in ReplyData} \cup {[msg |-> NoMsg, err |-> TRUE]}
    ELSE {}

\* How the pending nc.Request may end now: with a reply or a connection
\* error before the timeout, with the timeout error once it has passed.
Outcomes ==
    IF now - loc.sentAt < RequestTimeout
    THEN {[msg |-> d, err |-> FALSE] : d \in ReplyData} \cup {[msg |-> NoMsg, err |-> TRUE]}
    ELSE {[msg |-> NoMsg, err |-> TRUE]}

\* nc.Request("user.info", ...) returns; the handler then sends pet.info
UserInfoReturns ==
    /\ pc = "user.info"
    /\ \E o \in Outcomes :
        loc' = [loc EXCEPT !.msgUser = o.msg, !.errU = o.err, !.sentAt = now]
    /\ calls' = Append(calls, Request("pet.info", now))
    /\ pc' = "pet.info"
    /\ UNCHANGED <<svc, db, req, resp, now, prev>>

\* nc.Request("pet.info", ...) returns; the handler decodes both and responds
PetInfoReturns ==
    /\ pc = "pet.info"
    /\ \E o \in Outcomes :
        /\ loc' = [loc EXCEPT !.msgPet = o.msg, !.errP = o.err]
        /\ resp' = GetTxResponse(loc')
    /\ pc' = "done"
    /\ UNCHANGED <<svc, db, req, calls, now, prev>>

\* the handler returns: the request and everything scoped to it are gone
Return ==
    /\ pc = "done"
    /\ pc' = "idle"
    /\ req' = [op |-> "none"]
    /\ resp' = NoResp
    /\ calls' = <<>>
    /\ now' = 0
    /\ loc' = NoLoc
    /\ UNCHANGED <<svc, db, prev>>

Next ==
    \/ CreatePostHandler
    \/ CreateTransactionHandler
    \/ GetPostsHandler
    \/ GetPostHandler
    \/ GetTransactionsHandler
    \/ GetTxByIdHandler
    \/ AppKernelStatsHandler
    \/ AppHealthCheckHandler
    \/ Tick
    \/ UserInfoReturns
    \/ PetInfoReturns
    \/ Return

Spec == Init /\ [][Next]_vars

(* ------------------- one request after another ------------------------ *)

\* The requests of the specifications below: a few of each kind, so that two
\* requests in a row can be compared.
SomePostBodies ==
    {[kind |-> "syntax"], [kind |-> "object", body |-> <<Rep(1)>>],
     [kind |-> "object", body |-> <<Rep(StrMax)>>]}

SomeTxBodies ==
    {[kind |-> "type"], [kind |-> "object", fields |-> TxFields],
     [kind |-> "object",
      fields |-> [TxFields EXCEPT !.owner_id = <<2>>, !.status = <<StatusMax>>,
                                  !.message = <<Rep(StrMax)>>]]}

SomeQueryValues == {<<>>, <<S1>>, <<(<<50>>)>>}

\* "1", "2", "3", "02", "0", "-"
SomeIds == {S1, <<50>>, <<51>>, <<48, 50>>, <<48>>, <<45>>}

PostCreated == CreatePostHandlerOn(SomePostBodies)
TxCreated == CreateTransactionHandlerOn(SomeTxBodies)
PostsListed == svc \in {"kampusapp", "post"} /\ ListOn(SomeQueryValues, "posts", "post.select")
TxListed == svc = "transaction" /\ ListOn(SomeQueryValues, "transactions", "tx.select")
TxFetched == GetTxByIdHandlerOn(SomeIds)

\* the handler returns and the client keeps the request and its response
Remember ==
    /\ pc = "done"
    /\ prev' = [req |-> req, resp |-> resp]
    /\ pc' = "idle"
    /\ req' = [op |-> "none"]
    /\ resp' = NoResp
    /\ calls' = <<>>
    /\ now' = 0
    /\ loc' = NoLoc
    /\ UNCHANGED <<svc, db>>

\* the handler of a read returns and the client keeps what it had: no create
\* is ever between the remembered request and the current one
Forget == req.op # "create" /\ Return

NextHist ==
    \/ PostCreated
    \/ TxCreated
    \/ PostsListed
    \/ TxListed
    \/ TxFetched
    \/ Tick
    \/ UserInfoReturns
    \/ PetInfoReturns
    \/ Remember
    \/ Forget

SpecHist == Init /\ [][NextHist]_vars

(* ------------------------------ progress ------------------------------ *)

\* nc.Request returns nats.ErrTimeout once the timeout has passed
UserInfoTimesOut ==
    /\ pc = "user.info"
    /\ now - loc.sentAt >= RequestTimeout
    /\ UserInfoReturns

PetInfoTimesOut ==
    /\ pc = "pet.info"
    /\ now - loc.sentAt >= RequestTimeout
    /\ PetInfoReturns

NextLive ==
    \/ PostCreated
    \/ TxCreated
    \/ PostsListed
    \/ TxListed
    \/ TxFetched
    \/ AppKernelStatsHandler
    \/ AppHealthCheckHandler
    \/ Tick
    \/ UserInfoReturns
    \/ PetInfoReturns
    \/ Return

\* Time passes, and a pending nc.Request returns when its timeout has passed;
\* nothing is assumed of the sibling services, which may never reply.
SpecLive ==
    /\ Init
    /\ [][NextLive]_vars
    /\ WF_vars(Tick)
    /\ WF_vars(UserInfoTimesOut)
    /\ WF_vars(PetInfoTimesOut)

(* ------------------------- what the claims use ------------------------ *)

\* the handler has written its response and not yet returned
Responded(op) == pc = "done" /\ req.op = op

\* a handler step that takes a request of kind op to its response
Handles(op) == pc = "idle" /\ pc' = "done" /\ req'.op = op

RequestBodyType == IF svc = "transaction" THEN "create-tx/request-body" ELSE "create-post/request-body"
ValidationType == IF svc = "transaction" THEN "create-tx/validation" ELSE "create-post/validation"
SaveType == IF svc = "transaction" THEN "create-tx/save" ELSE "create-post/save"

\* the calls of the current request with the given op
CallsOf(op) == {i \in 1..Len(calls) : calls[i].op = op}

\* a decimal integer as it is usually written: digits only, no leading zero
IsDecimal(s) ==
    /\ s # <<>>
    /\ \A i \in 1..Len(s) : IsDigit(s[i])
    /\ Len(s) > 1 => Head(s) # 48

\* the parameter is present and is a decimal integer in 1..100
InRange(v) == v # <<>> /\ IsDecimal(v[1]) /\ DigitsValue(v[1], 0) \in 1..100

ListOf(body) == IF svc = "transaction" THEN body.transactions ELSE body.posts

(* ----------------------- concurrent create requests ------------------- *)

\* the create requests that gin serves at the same time, one goroutine each
MaxRequests == 3

Goroutines == 1..MaxRequests

\* the topic a create handler publishes on
CreatedEvent(s) == IF s = "transaction" THEN "tx.created" ELSE "post.created"

\* the create handler of program s, from its db.Create on
CreateOf(s, rows, body, saved, pubErr) ==
    IF s = "transaction" THEN CreateTransaction(rows, body, saved, pubErr)
    ELSE CreatePost(rows, body, saved, pubErr)

\* In this specification pc, req, resp, calls and loc hold one value for each
\* goroutine: they are the locals of the handler and its gin.Context.  db is
\* the one table behind the package-level handle.
InitConcurrent ==
    /\ svc \in {"kampusapp", "post", "transaction"}
    /\ db = <<>>
    /\ pc = [g \in Goroutines |-> "validator"]
    /\ req \in [Goroutines ->
                  {[op |-> "create", body |-> b] :
                      b \in IF svc = "transaction" THEN SomeTxBodies ELSE SomePostBodies}]
    /\ resp = [g \in Goroutines |-> NoResp]
    /\ calls = [g \in Goroutines |-> <<>>]
    /\ loc = [g \in Goroutines |-> NoLoc]
    /\ now = 0
    /\ prev = NoPrev

\* the handler of g calls its validator and returns if that reports an error
Validates(g) ==
    /\ pc[g] = "validator"
    /\ LET v == IF svc = "transaction" THEN CreateTransactionDtoValidator(req[g].body)
                ELSE CreatePostDtoValidator(req[g].body)
       IN  /\ resp' = [resp EXCEPT ![g] = v.resp]
           /\ pc' = [pc EXCEPT ![g] = IF v.err THEN "done" ELSE "db.Create"]
    /\ UNCHANGED <<svc, db, req, calls, now, loc, prev>>

\* db.Create of g: the store inserts the row and assigns its identifier in
\* one statement, or reports an error; on ID == 0 the handler answers 422
Creates(g) ==
    /\ pc[g] = "db.Create"
    /\ \E saved \in BOOLEAN :
        LET r == CreateOf(svc, db, req[g].body, saved, FALSE)
        IN  /\ saved => Len(db) < MaxRows
            /\ db' = r.rows
            /\ calls' = [calls EXCEPT ![g] = <<r.calls[1]>>]
            /\ IF r.resp.code = 200
               THEN /\ loc' = [loc EXCEPT ![g] = r.resp]
                    /\ pc' = [pc EXCEPT ![g] = "nc.Publish"]
                    /\ resp' = resp
               ELSE /\ resp' = [resp EXCEPT ![g] = r.resp]
                    /\ pc' = [pc EXCEPT ![g] = "done"]
                    /\ loc' = loc
    /\ UNCHANGED <<svc, req, now, prev>>

\* g publishes the created event and writes its 200
Publishes(g) ==
    /\ pc[g] = "nc.Publish"
    /\ \E pubErr \in BOOLEAN :
        calls' = [calls EXCEPT ![g] = Append(@, Publish(CreatedEvent(svc), pubErr))]
    /\ resp' = [resp EXCEPT ![g] = loc[g]]
    /\ pc' = [pc EXCEPT ![g] = "done"]
    /\ UNCHANGED <<svc, db, req, now, loc, prev>>

NextConcurrent ==
    \E g \in Goroutines :
        \/ Validates(g)
        \/ Creates(g)
        \/ Publishes(g)

SpecConcurrent == InitConcurrent /\ [][NextConcurrent]_vars

(* ---------------------- the validator on its own ---------------------- *)

\* The payloads CreateTransactionDtoValidator is applied to: every whole
\* degree from one below to one above each coordinate range, paired with the
\* boundary values of the other coordinate and the other members valid; and
\* the combinations of absent, zero, boundary and out-of-range values of the
\* seven members.
Degrees(max) == (0 - (max + 1))..(max + 1)
EdgeDegrees(max) == {0 - (max + 1), 0 - max, 0, max, max + 1}

CoordinateBodies ==
    {[kind |-> "object",
      fields |-> [TxFields EXCEPT !.latitude = <<c[1]>>, !.longitude = <<c[2]>>]] :
        c \in (Degrees(LatMax) \X EdgeDegrees(LonMax))
              \cup (EdgeDegrees(LatMax) \X Degrees(LonMax))}

SomeInts(max) == {<<>>, <<0 - 1>>, <<0>>, <<1>>, <<max>>, <<max + 1>>}
SomeTexts == {<<>>, <<Rep(0)>>, <<Rep(1)>>, <<Rep(StrMax)>>, <<Rep(StrMax + 1)>>}
SomeDegrees(max) == {<<>>, <<0 - (max + 1)>>, <<0>>, <<max>>}

MemberBodies ==
    {[kind |-> "object",
      fields |-> [owner_id |-> o, pet_id |-> p, status |-> st, message |-> m,
                  latitude |-> la, longitude |-> lo, upload |-> u]] :
        o \in {<<>>, <<0>>, <<1>>}, p \in {<<0 - 1>>, <<2>>}, st \in SomeInts(StatusMax),
        m \in SomeTexts, u \in {<<>>, <<Rep(1)>>, <<Rep(StrMax + 1)>>},
        la \in SomeDegrees(LatMax), lo \in SomeDegrees(LonMax)}

ValidatorBodies == {[kind |-> "syntax"], [kind |-> "type"]} \cup CoordinateBodies \cup MemberBodies

\* a create-transaction request has arrived and the handler is about to call
\* the validator
InitValidator ==
    /\ svc = "transaction"
    /\ db = <<>>
    /\ pc = "idle"
    /\ req \in {[op |-> "create", body |-> b] : b \in ValidatorBodies}
    /\ resp = NoResp
    /\ calls = <<>>
    /\ now = 0
    /\ loc = NoLoc
    /\ prev = NoPrev

\* CreateTransactionDtoValidator(ctx) returns: loc holds the DTO and the
\* error it returned, resp the 400 it wrote when it returned one
ValidatorReturns ==
    /\ pc = "idle"
    /\ req.op = "create"
    /\ LET v == CreateTransactionDtoValidator(req.body)
       IN  /\ loc' = [dto |-> v.dto, err |-> v.err]
           /\ resp' = v.resp
    /\ pc' = "validated"
    /\ UNCHANGED <<svc, db, req, calls, now, prev>>

NextValidator == ValidatorReturns

SpecValidator == InitValidator /\ [][NextValidator]_vars

(* -------------------------------- C1 ---------------------------------- *)

\* C1: a create request whose body does not decode into the DTO is answered
\* with 400 and the request-body type, writes nothing to the store and
\* publishes nothing.
C1_MalformedBodyRejected ==
    [][(Handles("create") /\ req'.body.kind # "object")
        => /\ resp'.code = 400
           /\ resp'.body.status = FALSE
           /\ resp'.body.type = RequestBodyType
           /\ calls' = <<>>
           /\ db' = db]_vars

C1_Witness ==
    /\ Responded("create")
    /\ req.body.kind = "syntax"
    /\ resp.code = 400
    /\ Len(db) > 0

(* -------------------------------- C2 ---------------------------------- *)

\* the body decodes and breaks a constraint of the post DTO: body missing,
\* empty or longer than 255
PostViolates(body) ==
    /\ body.kind = "object"
    /\ \/ body.body = <<>>
       \/ Len(body.body[1]) = 0
       \/ Len(body.body[1]) > 255

OutOf(member, lo, hi) == member = <<>> \/ member[1] = 0 \/ member[1] < lo \/ member[1] > hi
Below(member, lo) == member = <<>> \/ member[1] = 0 \/ member[1] < lo
LenOutOf(member, lo, hi) == member = <<>> \/ Len(member[1]) < lo \/ Len(member[1]) > hi

\* the body decodes and breaks a constraint of the transaction DTO
TxViolates(body) ==
    /\ body.kind = "object"
    /\ \/ Below(body.fields.owner_id, 1)
       \/ Below(body.fields.pet_id, 1)
       \/ OutOf(body.fields.status, 1, 10)
       \/ LenOutOf(body.fields.message, 1, 255)
       \/ OutOf(body.fields.latitude, 0 - 90, 90)
       \/ OutOf(body.fields.longitude, 0 - 180, 180)
       \/ LenOutOf(body.fields.upload, 1, 255)

Violates(body) == IF svc = "transaction" THEN TxViolates(body) ELSE PostViolates(body)

\* C2: a create request whose body decodes but breaks a field constraint is
\* answered with 400 and the validation type (not the request-body type),
\* writes nothing to the store and publishes nothing.
C2_ConstraintViolationRejected ==
    [][(Handles("create") /\ Violates(req'.body))
        => /\ resp'.code = 400
           /\ resp'.body.status = FALSE
           /\ resp'.body.type = ValidationType
           /\ resp'.body.type # RequestBodyType
           /\ calls' = <<>>
           /\ db' = db]_vars

C2_Witness ==
    /\ Responded("create")
    /\ req.body.kind = "object"
    /\ Violates(req.body)
    /\ resp.code = 400
    /\ Len(db) > 0

(* -------------------------------- C3 ---------------------------------- *)

\* C3: a list request whose limit and page are decimal integers L and P in
\* 1..100 queries the store with limit L and offset (P-1)*L.
C3_QueryUsesLimitAndPage ==
    (Responded("list") /\ InRange(req.query.limit) /\ InRange(req.query.page))
        => LET L == DigitsValue(req.query.limit[1], 0)
               P == DigitsValue(req.query.page[1], 0)
           IN  calls[1] = [op |-> "db.Find", limit |-> L, offset |-> (P - 1) * L]

(* -------------------------------- C4 ---------------------------------- *)

\* C4: a list request whose limit is a decimal integer L in 1..100 (page in
\* 1..100) is answered with at most L resources, whatever the store holds.
C4_CountAtMostLimit ==
    (Responded("list") /\ InRange(req.query.limit) /\ InRange(req.query.page))
        => Len(ListOf(resp.body)) <= DigitsValue(req.query.limit[1], 0)

(* -------------------------------- C5 ---------------------------------- *)

\* C5: whatever the raw limit and page are, the limit and the page the list
\* handler uses after normalisation are integers in 1..100.
C5_LimitAndPageInBounds ==
    Responded("list") => loc.limit \in 1..100 /\ loc.page \in 1..100

(* -------------------------------- C6 ---------------------------------- *)

\* C6: whatever the raw limit and page are, in every list handler the offset
\* passed to the store is not negative.
C6_OffsetNotNegative ==
    Responded("list") => calls[1].op = "db.Find" /\ calls[1].offset >= 0

(* -------------------------------- C7 ---------------------------------- *)

\* C7: when the store write of a create leaves the identifier at zero the
\* response is 422 with the save type, nothing is published and there is no
\* 200; when the identifier is not zero the response is 200 and carries it.
C7_ZeroIdentifierIsFailure ==
    (Responded("create") /\ CallsOf("db.Create") # {})
        => LET id  == calls[1].id
               row == IF svc = "transaction" THEN resp.body.transaction ELSE resp.body.post
           IN  IF id = 0
               THEN /\ resp.code = 422
                    /\ resp.body.status = FALSE
                    /\ resp.body.type = SaveType
                    /\ CallsOf("nc.Publish") = {}
               ELSE /\ resp.code = 200
                    /\ row.ID = id
                    /\ row \in {db[i] : i \in 1..Len(db)}

C7_Witness ==
    /\ Responded("create")
    /\ CallsOf("db.Create") # {}
    /\ calls[1].id = 0
    /\ resp.code = 422

(* -------------------------------- C8 ---------------------------------- *)

Stored(n) == \E i \in 1..Len(db) : db[i].ID = n

\* C8: a fetch by an identifier that no stored transaction has is answered
\* with 404 and the not-found type, never with 200; a fetch by a stored
\* identifier is never answered with 404.
C8_NotFoundIs404 ==
    (req.op = "fetch" /\ ~Atoi(req.id).err)
        => IF Stored(Atoi(req.id).n)
           THEN resp.code # 404
           ELSE /\ resp.code # 200
                /\ pc = "done" => /\ resp.code = 404
                                  /\ resp.body.status = FALSE
                                  /\ resp.body.type = "get-tx/not-found"

C8_Witness ==
    /\ Responded("fetch")
    /\ Len(db) > 0
    /\ ~Atoi(req.id).err
    /\ ~Stored(Atoi(req.id).n)
    /\ resp.code = 404

(* -------------------------------- C9 ---------------------------------- *)

\* the fetch found its transaction and has answered
FetchedStored == Responded("fetch") /\ ~Atoi(req.id).err /\ Stored(Atoi(req.id).n)

\* an enrichment call failed: an error (the timeout among them) or a reply
\* that does not decode
CallFailed(msg, err) == err \/ msg.json \in {"array", "invalid"}

\* what a reply that decodes decodes to
Decoded(msg) ==
    IF msg.json = "object" THEN [isNil |-> FALSE, members |-> msg.members] ELSE NilMap

\* C9 as claimed: whatever the two outcomes, the fetch of a stored transaction
\* answers 200 with the transaction; a field is nil exactly when its own call
\* failed and is the decoded reply when its own call succeeded.
C9_NilExactlyOnFailure ==
    FetchedStored
        => /\ resp.code = 200
           /\ resp.body.transaction = loc.tx
           /\ resp.body.user.isNil <=> CallFailed(loc.msgUser, loc.errU)
           /\ resp.body.pet.isNil <=> CallFailed(loc.msgPet, loc.errP)
           /\ ~CallFailed(loc.msgUser, loc.errU) => resp.body.user = Decoded(loc.msgUser)
           /\ ~CallFailed(loc.msgPet, loc.errP) => resp.body.pet = Decoded(loc.msgPet)

\* C9 (amended): whatever the two outcomes, the fetch of a stored transaction
\* answers 200 with the transaction; a field is nil exactly when its own call
\* failed or its own reply is the JSON literal null, and is the decoded reply
\* when its own call succeeded, whatever the other call did.
C9_EnrichmentIsolated ==
    FetchedStored
        => /\ resp.code = 200
           /\ resp.body.transaction = loc.tx
           /\ resp.body.user.isNil
                <=> (CallFailed(loc.msgUser, loc.errU) \/ loc.msgUser.json = "null")
           /\ resp.body.pet.isNil
                <=> (CallFailed(loc.msgPet, loc.errP) \/ loc.msgPet.json = "null")
           /\ ~CallFailed(loc.msgUser, loc.errU) => resp.body.user = Decoded(loc.msgUser)
           /\ ~CallFailed(loc.msgPet, loc.errP) => resp.body.pet = Decoded(loc.msgPet)

\* user.info ran to its timeout, pet.info replied with an object
C9_Witness ==
    /\ FetchedStored
    /\ loc.errU
    /\ \E i \in CallsOf("nc.Request") : calls[i].topic = "pet.info" /\ calls[i].at = RequestTimeout
    /\ loc.msgPet.json = "object"
    /\ resp.code = 200
    /\ resp.body.user.isNil
    /\ ~resp.body.pet.isNil

(* -------------------------------- C10 --------------------------------- *)

\* C10: the two enrichment requests of a fetch do not delay each other:
\* pet.info is sent when user.info is sent, also when user.info runs to its
\* timeout.
C10_PetInfoNotDelayed ==
    \A i, j \in CallsOf("nc.Request") : calls[i].at = calls[j].at

(* -------------------------------- C11 --------------------------------- *)

\* the field of the fetch response that belongs to one enrichment call
FieldOf(msg, err) == IF CallFailed(msg, err) THEN NilMap ELSE Decoded(msg)

\* the response of a request that got as far as its publish, from the request,
\* the table and the enrichment outcomes alone
ResponseApartFromPublish ==
    IF req.op = "create"
    THEN [code |-> 200,
          body |-> IF svc = "transaction"
                   THEN [status |-> TRUE, type |-> "create-tx/success",
                         message |-> "Transaction Created Successfully",
                         transaction |-> db[calls[1].id]]
                   ELSE [post |-> db[calls[1].id]]]
    ELSE IF req.op = "list"
    THEN [code |-> 200,
          body |-> IF svc = "transaction"
                   THEN [transactions |-> Find(db, loc.limit, loc.offset)]
                   ELSE [posts |-> Find(db, loc.limit, loc.offset)]]
    ELSE [code |-> 200,
          body |-> [transaction |-> db[Atoi(req.id).n],
                    user |-> FieldOf(loc.msgUser, loc.errU),
                    pet  |-> FieldOf(loc.msgPet, loc.errP)]]

\* C11: the outcome of nc.Publish never changes the response: a request that
\* published, with or without an error, is answered with the status and body
\* that the request, the store and the enrichment replies determine, and a
\* publish error is never reported.
C11_PublishOutcomeIgnored ==
    (pc = "done" /\ CallsOf("nc.Publish") # {}) => resp = ResponseApartFromPublish

C11_Witness ==
    /\ Responded("create")
    /\ \E i \in CallsOf("nc.Publish") : calls[i].err
    /\ resp.code = 200

(* -------------------------------- C12 --------------------------------- *)

\* the place of a call in the pipeline: store, publish, user.info, pet.info
Rank(c) ==
    IF c.op \in {"db.Create", "db.Find", "db.First"} THEN 1
    ELSE IF c.op = "nc.Publish" THEN 2
    ELSE IF c.topic = "user.info" THEN 3
    ELSE 4

\* C12: within a request every step happens at most once and in the order
\* validate, store call, publish, enrichment, respond; after a failure (400,
\* 422, 404) no later step is executed and none is retried.
C12_StepsOnceInOrder ==
    /\ \A i, j \in 1..Len(calls) : i < j => Rank(calls[i]) < Rank(calls[j])
    /\ resp.code # 0 => pc = "done"
    /\ resp.code = 400 => calls = <<>>
    /\ resp.code \in {422, 404} => Len(calls) = 1 /\ Rank(calls[1]) = 1

C12_Witness ==
    /\ Responded("create")
    /\ resp.code = 422
    /\ Len(calls) = 1

(* -------------------------------- C15 --------------------------------- *)

\* the parameter is absent or its value is the empty string
AbsentOrEmpty(v) == v = <<>> \/ v = <<(<<>>)>>

\* C15: a list request whose limit and page are absent or empty is served
\* with limit 10 and page 1: the store is queried with limit 10, offset 0.
C15_DefaultsWhenAbsentOrEmpty ==
    (Responded("list") /\ AbsentOrEmpty(req.query.limit) /\ AbsentOrEmpty(req.query.page))
        => /\ loc.limit = 10
           /\ loc.page = 1
           /\ calls[1] = [op |-> "db.Find", limit |-> 10, offset |-> 0]

C15_Witness ==
    /\ Responded("list")
    /\ req.query.limit = <<>>
    /\ req.query.page = <<(<<>>)>>
    /\ calls[1] = [op |-> "db.Find", limit |-> 10, offset |-> 0]
    /\ Len(db) > 0

(* -------------------------------- C16 --------------------------------- *)

\* C16: a list request with limit=10 and page=1 on an empty store is answered
\* with 200 and an empty list, not with an error.
C16_EmptyStoreEmptyList ==
    (Responded("list") /\ req.query = [limit |-> <<S10>>, page |-> <<S1>>] /\ db = <<>>)
        => /\ resp.code = 200
           /\ ListOf(resp.body) = <<>>
           /\ DOMAIN resp.body = {IF svc = "transaction" THEN "transactions" ELSE "posts"}

C16_Witness ==
    /\ Responded("list")
    /\ req.query = [limit |-> <<S10>>, page |-> <<S1>>]
    /\ db = <<>>
    /\ resp.code = 200

(* -------------------------------- C18 --------------------------------- *)

\* C18: every response of the create, list and fetch-by-id endpoints is a JSON
\* object with a boolean status: true with the payload on success, false with
\* an error type and message on failure.
C18_StatusInEveryResponse ==
    (pc = "done" /\ req.op \in {"create", "list", "fetch"})
        => /\ "status" \in DOMAIN resp.body
           /\ resp.body.status \in BOOLEAN
           /\ resp.body.status <=> resp.code = 200
           /\ ~resp.body.status => {"type", "message"} \subseteq DOMAIN resp.body

(* -------------------------------- C19 --------------------------------- *)

CreatedTopic == IF svc = "transaction" THEN "tx.created" ELSE "post.created"

\* C19: a created event is published exactly when the store write produced an
\* identifier that is not zero; a fetch publishes tx.select and requests
\* user.info and pet.info only when the transaction was found, never on the
\* 400 and 404 paths.
C19_EventsFollowSuccess ==
    /\ Responded("create")
        => /\ CallsOf("nc.Publish") # {}
                <=> (CallsOf("db.Create") # {} /\ calls[1].id # 0)
           /\ \A i \in CallsOf("nc.Publish") : calls[i].topic = CreatedTopic
           /\ CallsOf("nc.Request") = {}
    /\ (req.op = "fetch" /\ CallsOf("nc.Publish") \cup CallsOf("nc.Request") # {})
        => /\ ~Atoi(req.id).err
           /\ Stored(Atoi(req.id).n)
           /\ resp.code \notin {400, 404}
           /\ \A i \in CallsOf("nc.Publish") : calls[i].topic = "tx.select"
    /\ (Responded("fetch") /\ resp.code \in {400, 404})
        => CallsOf("nc.Publish") \cup CallsOf("nc.Request") = {}

C19_Witness ==
    /\ Responded("fetch")
    /\ resp.code = 404
    /\ Len(db) > 0
    /\ CallsOf("nc.Publish") = {}

(* -------------------------------- C17 --------------------------------- *)

\* C17: in every program app_kernel_stats answers 200 only to requests that
\* carry the basic-auth credentials of APP_STAT_AUTH, and health answers 200
\* to requests without credentials.
C17_StatsBehindAuthHealthOpen ==
    /\ (Responded("stats") /\ resp.code = 200) => req.auth = "configured"
    /\ (Responded("health") /\ req.auth = "none") => resp.code = 200

(* -------------------------------- C13 --------------------------------- *)

\* the create that came right before the current request succeeded
CreatedBefore == prev.req.op = "create" /\ prev.resp.code = 200

\* the current request fetched the identifier that the create returned
FetchedCreated ==
    /\ CreatedBefore
    /\ Responded("fetch")
    /\ ~Atoi(req.id).err
    /\ Atoi(req.id).n = prev.resp.body.transaction.ID

\* C13: a create-transaction that succeeds, followed by a fetch by the
\* identifier it returned with no create in between, is answered 200 with the
\* transaction of the create response: the same identifier and the same
\* payload fields.
C13_FetchAfterCreateEqual ==
    FetchedCreated
        => /\ resp.code = 200
           /\ resp.body.transaction = prev.resp.body.transaction
           /\ prev.resp.body.transaction = [ID |-> Atoi(req.id).n] @@ BindTxJSON(prev.req.body).dto

C13_Witness ==
    /\ FetchedCreated
    /\ Len(db) > 1
    /\ resp.body.transaction # db[1]

(* -------------------------------- C14 --------------------------------- *)

\* the current request is a read that repeats the remembered one; Forget
\* keeps only reads between the two
SameReadAgain == pc = "done" /\ req.op \in {"list", "fetch"} /\ prev.req = req

\* C14 as claimed: the same list or fetch-by-id request issued twice with no
\* create in between is answered with identical responses.
C14_SameReadSameResponse == SameReadAgain => resp = prev.resp

\* a response body without the members that come from the sibling services
Own(body) == [m \in DOMAIN body \ {"user", "pet"} |-> body[m]]

\* C14: the same list request issued twice with no create in between is
\* answered with identical responses; the same fetch-by-id is answered with
\* the same status code and, apart from the user and pet members, the same
\* body, and the two responses are identical when their user and pet members
\* are.
C14_SameReadSameStored ==
    SameReadAgain
        => /\ resp.code = prev.resp.code
           /\ DOMAIN resp.body = DOMAIN prev.resp.body
           /\ Own(resp.body) = Own(prev.resp.body)
           /\ (req.op = "list" \/ resp.code # 200) => resp = prev.resp

C14_Witness ==
    /\ SameReadAgain
    /\ req.op = "fetch"
    /\ resp.code = 200
    /\ resp.body.user # prev.resp.body.user
    /\ resp.body.transaction = prev.resp.body.transaction

(* -------------------------------- C20 --------------------------------- *)

\* C20: every request eventually receives exactly one response. A request
\* that was received is answered, the fetch-by-id of a stored transaction
\* also when no sibling replies, for each nc.Request ends at its timeout; a
\* handler has written a response when it returns, writes nothing before its
\* last step and never writes a second one.
C20_ExactlyOneResponse ==
    /\ (req.op # "none") ~> (pc = "done" /\ resp.code # 0)
    /\ [](pc = "done" <=> resp.code # 0)
    /\ [][resp.code # 0 => (pc' = "idle" /\ resp' = NoResp)]_vars

\* both enrichment calls of a fetch ran into their timeout and it answered
C20_Witness ==
    /\ Responded("fetch")
    /\ resp.code = 200
    /\ loc.errU /\ loc.errP
    /\ now = 2 * RequestTimeout

(* -------------------------------- C21 --------------------------------- *)

\* C21: the store only grows. Every step keeps the stored rows as they are
\* and in place, at most appending one; a list, a fetch-by-id and a create
\* that ends in 400 leave the store unchanged, and only a create that
\* answers 200 changes it.
C21_StoreOnlyGrows ==
    [][ /\ Len(db') >= Len(db)
        /\ SubSeq(db', 1, Len(db)) = db
        /\ (req'.op \in {"list", "fetch"} \/ resp'.code = 400) => db' = db
        /\ db' # db => Handles("create") /\ resp'.code = 200 ]_vars

\* a create was rejected with 400 while rows were stored
C21_Witness ==
    /\ Responded("create")
    /\ resp.code = 400
    /\ Len(db) > 1
    /\ db[1] # [db[2] EXCEPT !.ID = 1]

(* -------------------------------- C24 --------------------------------- *)

\* a member of the payload is present and its value (its length, for a
\* text) is in lo..hi
Present(member) == member # <<>>
Within(member, lo, hi) == Present(member) /\ member[1] >= lo /\ member[1] <= hi
LenWithin(member, lo, hi) == Present(member) /\ Len(member[1]) >= lo /\ Len(member[1]) <= hi

\* the constraints of the claim, on the members of the payload
InClaimedRanges(f) ==
    /\ Present(f.owner_id) /\ f.owner_id[1] >= 1
    /\ Present(f.pet_id) /\ f.pet_id[1] >= 1
    /\ Within(f.status, 1, StatusMax)
    /\ LenWithin(f.message, 1, StrMax)
    /\ LenWithin(f.upload, 1, StrMax)
    /\ Within(f.latitude, 0 - LatMax, LatMax)
    /\ Within(f.longitude, 0 - LonMax, LonMax)

\* C24: CreateTransactionDtoValidator accepts a payload that decoded exactly
\* when owner_id >= 1, pet_id >= 1, status is in 1..10, message and upload
\* have a length in 1..255, latitude is in -90..90 and longitude is in
\* -180..180; every other payload is rejected with a 400.
C24_AcceptsExactlyInRange ==
    (pc = "validated" /\ req.body.kind = "object")
        => /\ ~loc.err <=> InClaimedRanges(req.body.fields)
           /\ loc.err => resp.code = 400

(* -------------------------------- C23 --------------------------------- *)

\* a decimal integer: an optional sign, then one or more decimal digits
DecimalInteger(s) ==
    LET digits == IF s # <<>> /\ s[1] \in {43, 45} THEN Tail(s) ELSE s
    IN  digits # <<>> /\ \A i \in 1..Len(digits) : digits[i] \in 48..57

\* C23: a fetch-by-id whose id is not a decimal integer is answered at once
\* with 400 and the type get-tx/validation, and makes no store lookup, no
\* publish and no enrichment request.
C23_BadIdIs400 ==
    (req.op = "fetch" /\ ~DecimalInteger(req.id))
        => /\ pc = "done"
           /\ resp.code = 400
           /\ resp.body.status = FALSE
           /\ resp.body.type = "get-tx/validation"
           /\ calls = <<>>

\* the id "1-" was refused while transaction 1 was stored
C23_Witness ==
    /\ Responded("fetch")
    /\ req.id = <<49, 45>>
    /\ Stored(1)
    /\ resp.code = 400

(* -------------------------------- C22 --------------------------------- *)

\* the resource in the 200 of goroutine g
Succeeded(g) == pc[g] = "done" /\ resp[g].code = 200
Resource(g) == IF svc = "transaction" THEN resp[g].body.transaction ELSE resp[g].body.post

\* the row the payload of g makes, under identifier id
OwnRow(g, id) ==
    IF svc = "transaction" THEN [ID |-> id] @@ BindTxJSON(req[g].body).dto
    ELSE [ID |-> id, Body |-> BindPostJSON(req[g].body).dto.Body]

\* the payload of g decodes and meets the constraints of its DTO
OwnPayloadValid(g) ==
    /\ req[g].body.kind = "object"
    /\ ~Violates(req[g].body)

\* what belongs to goroutine g
Locals(g) == <<pc[g], req[g], resp[g], calls[g], loc[g]>>

\* C22: under every interleaving of concurrent create requests, the
\* identifiers of the successful responses are pairwise distinct; every
\* successfully created resource is in the store under its identifier, with
\* the payload of its own request; a request is answered 400 exactly when its
\* own payload fails, whatever the others do; and a step of one handler
\* changes only its own locals and, in db.Create alone, the store.
C22_ConcurrentCreatesIndependent ==
    /\ [](\A g, h \in Goroutines :
            (g # h /\ Succeeded(g) /\ Succeeded(h)) => Resource(g).ID # Resource(h).ID)
    /\ [](\A g \in Goroutines :
            Succeeded(g) => /\ Resource(g).ID \in 1..Len(db)
                            /\ db[Resource(g).ID] = Resource(g)
                            /\ Resource(g) = OwnRow(g, Resource(g).ID))
    /\ [](\A g \in Goroutines :
            pc[g] = "done" => (resp[g].code = 400 <=> ~OwnPayloadValid(g)))
    /\ [][\A g \in Goroutines :
            Locals(g)' # Locals(g)
                => /\ \A h \in Goroutines \ {g} : Locals(h)' = Locals(h)
                   /\ db' # db => pc[g] = "db.Create" /\ OwnPayloadValid(g)]_vars

\* the second request was stored before the first, a third failed validation
\* meanwhile, and both got their own resource back
C22_Witness ==
    /\ Succeeded(1) /\ Succeeded(2)
    /\ Resource(1).ID = 2 /\ Resource(2).ID = 1
    /\ req[1].body # req[2].body
    /\ pc[3] = "done" /\ resp[3].code = 400

====
